---------------------------- MODULE Spec2Model ----------------------------
(***************************************************************************)
(* RedisActor (redis-actor/src/actor.rs): an actix actor that owns one     *)
(* multiplexed connection to a Redis backend and answers the messages Get, *)
(* Set, Delete and Lock by one backend command each.                       *)
(*                                                                         *)
(* The model holds the actor's field `connection`, the context's list of   *)
(* waited futures (`.wait(ctx)` stops the mailbox until the future         *)
(* resolves), the mailbox, the response futures the handlers return, the   *)
(* replies the callers receive, and the backend: a key/value store with    *)
(* expiry and a clock counted in seconds.                                  *)
(*                                                                         *)
(* Strings that the code concatenates are sequences of tokens: the key     *)
(* "lock::a" is <<"lock::", "a">>, so format!("lock::{}", key) is          *)
(* <<"lock::">> \o key.                                                    *)
(***************************************************************************)
EXTENDS Integers, Sequences, FiniteSets, TLC

\* Bounds of the model.
MaxMsgs == 2
MaxTtl == 1
MaxRestarts == 1
MaxLockMsgs == 3

VARIABLES
    connection_info, \* RedisActor.connection_info: an address Client::open accepts or not
    connection,      \* RedisActor.connection: <<>> is None, <<h>> is Some(handle h)
    flags,           \* the context: "Uninitialized", "Running" or "Crashed"
    wait,            \* the context's waited futures: <<>>, <<"connect">> or <<"fut">>
    connect_result,  \* the `res` of the latest connect attempt: "none", "ok", "err"
    handles,         \* number of connection handles the client has returned so far
    restarts,        \* number of supervised restarts so far
    msgs,            \* every message sent to the actor, in order; the index is its id
    mailbox,         \* ids of the messages waiting in the mailbox, oldest first
    inflight,        \* response futures not yet resolved: [id, con]
    replies,         \* what the sender of each message has received
    store,           \* the backend: key -> [val, exp]; exp is <<>> or <<time>>
    now,             \* the backend's clock: the seconds in which a key could expire
    last,            \* history: key -> [id, at] of the last command that changed it
    exec,            \* history: message id -> what its command met at the backend
    sent,            \* history: message id -> the actor's state when it was sent
    refused,         \* ids of the futures async { Err(Error::Connection) } not yet resolved
    wire             \* replies of the backend on their way to the sender: id -> reply

vars == <<connection_info, connection, flags, wait, connect_result, handles,
          restarts, msgs, mailbox, inflight, replies, store, now, last, exec, sent,
          refused, wire>>

----------------------------------------------------------------------------
\* Inputs.

Keys == {<<"a">>, <<"lock::", "a">>}
Values == {"x", "y"}
Ttls == 0..MaxTtl
OptTtls == {<<>>} \cup {<<t>> : t \in Ttls}

\* pub struct Get { key }
GetMsg(k) == [op |-> "Get", key |-> k, value |-> "", ttl |-> <<>>]
\* pub struct Set { key, value, ttl: Option<u32> }
SetMsg(k, v, t) == [op |-> "Set", key |-> k, value |-> v, ttl |-> t]
\* pub struct Delete { key }
DeleteMsg(k) == [op |-> "Delete", key |-> k, value |-> "", ttl |-> <<>>]
\* pub struct Lock { key, ttl: u32 }
LockMsg(k, t) == [op |-> "Lock", key |-> k, value |-> "", ttl |-> <<t>>]

Messages ==
    {GetMsg(k) : k \in Keys}
    \cup {SetMsg(k, v, t) : k \in Keys, v \in Values, t \in OptTtls}
    \cup {DeleteMsg(k) : k \in Keys}
    \cup {LockMsg(k, t) : k \in Keys, t \in Ttls}

----------------------------------------------------------------------------
\* What a sender receives.

NoReply == [kind |-> "NoReply", err |-> "", tag |-> "", val |-> "", n |-> 0]
\* the sender's future fails with MailboxError::Closed: the handler gave no result
MailboxClosed == [kind |-> "MailboxClosed", err |-> "", tag |-> "", val |-> "", n |-> 0]
Err(e) == [kind |-> "Err", err |-> e, tag |-> "", val |-> "", n |-> 0]
Ok(tag, v, n) == [kind |-> "Ok", err |-> "", tag |-> tag, val |-> v, n |-> n]

----------------------------------------------------------------------------
\* The backend: Redis GET, SET [NX] [EX], DEL on a store with expiry.

NilReply == [t |-> "nil", s |-> "", n |-> 0]
BulkReply(s) == [t |-> "bulk", s |-> s, n |-> 0]
StatusReply(s) == [t |-> "status", s |-> s, n |-> 0]
IntReply(n) == [t |-> "int", s |-> "", n |-> n]
ErrorReply == [t |-> "error", s |-> "", n |-> 0]

EmptyStore == [k \in {} |-> [val |-> "", exp |-> <<>>]]

Put(s, k, e) == [j \in (DOMAIN s) \cup {k} |-> IF j = k THEN e ELSE s[j]]
Remove(s, k) == [j \in (DOMAIN s) \ {k} |-> s[j]]
\* the keys whose expiry has passed at time t are gone
Expire(s, t) == [j \in {i \in DOMAIN s : s[i].exp = <<>> \/ s[i].exp[1] > t} |-> s[j]]

Apply(cmd, s, t) ==
    CASE cmd.name = "GET" ->
            [store |-> s,
             reply |-> IF cmd.key \in DOMAIN s THEN BulkReply(s[cmd.key].val) ELSE NilReply]
      [] cmd.name = "DEL" ->
            [store |-> Remove(s, cmd.key),
             reply |-> IntReply(IF cmd.key \in DOMAIN s THEN 1 ELSE 0)]
      [] cmd.name = "SET" ->
            IF cmd.ex # <<>> /\ cmd.ex[1] = 0
            THEN [store |-> s, reply |-> ErrorReply]
            ELSE IF cmd.nx /\ cmd.key \in DOMAIN s
            THEN [store |-> s, reply |-> NilReply]
            ELSE [store |-> Put(s, cmd.key,
                                [val |-> cmd.value,
                                 exp |-> IF cmd.ex = <<>> THEN <<>>
                                         ELSE <<t + cmd.ex[1]>>]),
                  reply |-> StatusReply("OK")]

----------------------------------------------------------------------------
\* The handlers' translation of a message into a command and of the
\* backend's reply into the result.

\* Mutant of LockKey: the marker is stored under the key itself.
LockKey_NoPrefix(key) == key

\* format!("lock::{}", msg.key)
LockKey(key) == <<"lock::">> \o key

\* redis::cmd("GET").arg(msg.key)
GetCommand(msg) ==
    [name |-> "GET", key |-> msg.key, value |-> "", nx |-> FALSE, ex |-> <<>>]

\* Mutants of SetCommand: the value is not passed; the ttl is not passed; the
\* key is a fixed one.
SetCommand_NoValue(msg) ==
    [name |-> "SET", key |-> msg.key, value |-> "", nx |-> FALSE, ex |-> msg.ttl]
SetCommand_NoExpiry(msg) ==
    [name |-> "SET", key |-> msg.key, value |-> msg.value, nx |-> FALSE, ex |-> <<>>]
SetCommand_OneKey(msg) ==
    [name |-> "SET", key |-> <<"a">>, value |-> msg.value, nx |-> FALSE,
     ex |-> msg.ttl]

\* redis::cmd("SET").arg(msg.key).arg(msg.value) [.arg("EX").arg(ttl)]
SetCommand(msg) ==
    [name |-> "SET", key |-> msg.key, value |-> msg.value, nx |-> FALSE,
     ex |-> msg.ttl]

\* redis::cmd("DEL").arg(msg.key)
DeleteCommand(msg) ==
    [name |-> "DEL", key |-> msg.key, value |-> "", nx |-> FALSE, ex |-> <<>>]

\* Mutant of LockCommand: the marker is written without EX ttl (the expiry
\* would be a second command).
LockCommand_NoExpiry(msg) ==
    [name |-> "SET", key |-> LockKey(msg.key), value |-> "", nx |-> TRUE,
     ex |-> <<>>]

\* Mutant of LockCommand: the NX argument is missing.
LockCommand_NoNx(msg) ==
    [name |-> "SET", key |-> LockKey(msg.key), value |-> "", nx |-> FALSE,
     ex |-> msg.ttl]

\* redis::cmd("SET").arg(format!("lock::{}", msg.key)).arg("").arg("NX").arg("EX").arg(msg.ttl)
LockCommand(msg) ==
    [name |-> "SET", key |-> LockKey(msg.key), value |-> "", nx |-> TRUE,
     ex |-> msg.ttl]

Command(msg) ==
    CASE msg.op = "Get" -> GetCommand(msg)
      [] msg.op = "Set" -> SetCommand(msg)
      [] msg.op = "Delete" -> DeleteCommand(msg)
      [] msg.op = "Lock" -> LockCommand(msg)

\* Mutant of GetResult: an absent key reads as the empty string.
GetResult_NilAsEmpty(r) ==
    CASE r.t \in {"nil", "bulk", "status"} -> Ok("Some", r.s, 0)
      [] OTHER -> Err("Backend")

\* query_async::<Option<String>>: nil is None, a string is Some
GetResult(r) ==
    CASE r.t = "nil" -> Ok("None", "", 0)
      [] r.t \in {"bulk", "status"} -> Ok("Some", r.s, 0)
      [] OTHER -> Err("Backend")

\* query_async::<String>: the confirmation string
SetResult(r) ==
    CASE r.t \in {"bulk", "status"} -> Ok(r.s, "", 0)
      [] OTHER -> Err("Backend")

\* Mutant of DeleteResult: res >= 0 in place of res > 0.
DeleteResult_NotNegative(r) ==
    CASE r.t = "int" -> IF r.n >= 0 THEN Ok("Deleted", "", r.n) ELSE Ok("Missing", "", 0)
      [] OTHER -> Err("Backend")

\* query_async::<u32>, then Deleted(res) if res > 0 else Missing
DeleteResult(r) ==
    CASE r.t = "int" -> IF r.n > 0 THEN Ok("Deleted", "", r.n) ELSE Ok("Missing", "", 0)
      [] OTHER -> Err("Backend")

\* Mutant of LockResult: the two arms are exchanged.
LockResult_Inverted(r) ==
    CASE r.t = "nil" -> Ok("Acquired", "", 0)
      [] r.t \in {"bulk", "status"} -> Ok("Locked", "", 0)
      [] OTHER -> Err("Backend")

\* query_async::<Option<String>>, then Acquired if res.is_some() else Locked
LockResult(r) ==
    CASE r.t = "nil" -> Ok("Locked", "", 0)
      [] r.t \in {"bulk", "status"} -> Ok("Acquired", "", 0)
      [] OTHER -> Err("Backend")

Result(msg, r) ==
    CASE msg.op = "Get" -> GetResult(r)
      [] msg.op = "Set" -> SetResult(r)
      [] msg.op = "Delete" -> DeleteResult(r)
      [] msg.op = "Lock" -> LockResult(r)

----------------------------------------------------------------------------
\* History variables, for stating the properties: they record what happened
\* and no action reads them.

NoHistory == [k \in {} |-> [id |-> 0, at |-> 0, written |-> FALSE]]
Record(h, k, e) == [j \in (DOMAIN h) \cup {k} |-> IF j = k THEN e ELSE h[j]]
\* a SET has stored a value under key k at some time
Written(h, k) == k \in DOMAIN h /\ h[k].written
\* the command wrote or removed its key
Changes(cmd, reply) == cmd.name = "DEL" \/ (cmd.name = "SET" /\ reply.t = "status")

----------------------------------------------------------------------------
\* The actor.

\* RedisActor::start: RedisActor { connection_info, connection: None }
Init ==
    /\ connection_info \in {"valid", "invalid"}
    /\ connection = <<>>
    /\ flags = "Uninitialized"
    /\ wait = <<>>
    /\ connect_result = "none"
    /\ handles = 0
    /\ restarts = 0
    /\ msgs = <<>>
    /\ mailbox = <<>>
    /\ inflight = {}
    /\ replies = <<>>
    /\ store = EmptyStore
    /\ now = 0
    /\ last = NoHistory
    /\ exec = NoHistory
    /\ sent = <<>>
    /\ refused = {}
    /\ wire = <<>>

\* A panic inside the actor's task: the context and its mailbox are dropped,
\* so the message being handled and every queued message end with
\* MailboxError::Closed instead of a handler result.
Crash(handled) ==
    /\ flags' = "Crashed"
    /\ wait' = <<>>
    /\ mailbox' = <<>>
    /\ replies' = [i \in DOMAIN replies |->
                     IF i \in handled THEN MailboxClosed ELSE replies[i]]

\* Actor::started: the connect future is handed to ctx.wait
Started ==
    /\ flags = "Uninitialized"
    /\ flags' = "Running"
    /\ wait' = <<"connect">>
    /\ UNCHANGED <<connection_info, connection, connect_result, handles, restarts,
                   msgs, mailbox, inflight, replies, store, now, last, exec, sent,
                   refused, wire>>

\* Ok((con, fut)): act.connection = Some(con); fut.into_actor(act).wait(ctx)
ConnectOk ==
    /\ flags = "Running"
    /\ wait = <<"connect">>
    /\ connection_info = "valid"
    /\ handles' = handles + 1
    /\ connection' = <<handles + 1>>
    /\ wait' = <<"fut">>
    /\ connect_result' = "ok"
    /\ UNCHANGED <<connection_info, flags, restarts, msgs, mailbox, inflight,
                   replies, store, now, last, exec, sent,
                   refused, wire>>

\* Err(err): error!(...), nothing else
ConnectErr ==
    /\ flags = "Running"
    /\ wait = <<"connect">>
    /\ connection_info = "valid"
    /\ wait' = <<>>
    /\ connect_result' = "err"
    /\ UNCHANGED <<connection_info, connection, flags, handles, restarts, msgs,
                   mailbox, inflight, replies, store, now, last, exec, sent,
                   refused, wire>>

\* Client::open(addr.as_ref()).unwrap() on an address the client cannot open
ConnectPanic ==
    /\ flags = "Running"
    /\ wait = <<"connect">>
    /\ connection_info = "invalid"
    /\ Crash({mailbox[j] : j \in DOMAIN mailbox})
    /\ UNCHANGED <<connection_info, connection, connect_result, handles, restarts,
                   msgs, inflight, store, now, last, exec, sent,
                   refused, wire>>

\* The future `fut` that came with the handle resolves. The context waits for
\* it, so the mailbox stays stopped from the connect until this step; when it
\* resolves is the client library's matter.
FutResolves ==
    /\ flags = "Running"
    /\ wait = <<"fut">>
    /\ wait' = <<>>
    /\ UNCHANGED <<connection_info, connection, flags, connect_result, handles,
                   restarts, msgs, mailbox, inflight, replies, store, now, last, exec, sent,
                   refused, wire>>

\* Mutant of Restart: the restarting hook resets the handle.
Restart_ClearsHandle ==
    /\ flags = "Running"
    /\ restarts < MaxRestarts
    /\ restarts' = restarts + 1
    /\ wait' = <<"connect">>
    /\ connect_result' = "none"
    /\ connection' = <<>>
    /\ UNCHANGED <<connection_info, flags, handles, msgs, mailbox,
                   inflight, replies, store, now, last, exec, sent,
                   refused, wire>>

\* The supervisor restarts the actor: the context's waited futures are dropped,
\* Supervised::restarting logs, and Actor::started runs again.
Restart ==
    /\ flags = "Running"
    /\ restarts < MaxRestarts
    /\ restarts' = restarts + 1
    /\ wait' = <<"connect">>
    /\ connect_result' = "none"
    /\ UNCHANGED <<connection_info, connection, flags, handles, msgs, mailbox,
                   inflight, replies, store, now, last, exec, sent,
                   refused, wire>>

\* the states of section 4.1 of the specification
ActorState ==
    CASE flags = "Uninitialized" -> "Uninitialized"
      [] flags = "Crashed" -> "Crashed"
      [] wait = <<"connect">> -> "Connecting"
      [] connect_result = "ok" -> "Ready"
      [] OTHER -> "Failed"

\* the messages sent and not yet answered
Unanswered == {i \in DOMAIN replies : replies[i] = NoReply}

\* message m enters the mailbox, or finds it closed
Post(m) ==
    /\ msgs' = Append(msgs, m)
    /\ sent' = Append(sent, ActorState)
    /\ IF flags = "Crashed"
       THEN /\ replies' = Append(replies, MailboxClosed)
            /\ mailbox' = mailbox
       ELSE /\ replies' = Append(replies, NoReply)
            /\ mailbox' = Append(mailbox, Len(msgs) + 1)

\* addr.send(msg)
Send ==
    /\ Len(msgs) < MaxMsgs
    /\ \E m \in Messages : Post(m)
    /\ UNCHANGED <<connection_info, connection, flags, wait, connect_result,
                   handles, restarts, inflight, store, now, last, exec,
                   refused, wire>>

\* Mutant of CanHandle: the handler's future is waited for, so one call at a
\* time.
CanHandle_OneAtATime(op) ==
    /\ flags = "Running"
    /\ wait = <<>>
    /\ inflight = {}
    /\ mailbox # <<>>
    /\ msgs[Head(mailbox)].op = op

\* Mutant of CanHandle: the connect future is spawned, not waited for, so
\* the mailbox runs during the connect attempt.
CanHandle_NoWait(op) ==
    /\ flags = "Running"
    /\ mailbox # <<>>
    /\ msgs[Head(mailbox)].op = op

\* the mailbox hands its oldest message to a handler when nothing is waited for
CanHandle(op) ==
    /\ flags = "Running"
    /\ wait = <<>>
    /\ mailbox # <<>>
    /\ msgs[Head(mailbox)].op = op

\* Mutant of Issue: the handler sends its command a second time.
Issue_Twice ==
    /\ mailbox' = Tail(mailbox)
    /\ inflight' = inflight \cup {[id |-> Head(mailbox), con |-> connection[1]],
                                  [id |-> Head(mailbox), con |-> 0]}
    /\ UNCHANGED <<flags, wait, replies, refused>>

\* the handler returns the future of its command on a clone of the handle
Issue ==
    /\ mailbox' = Tail(mailbox)
    /\ inflight' = inflight \cup {[id |-> Head(mailbox), con |-> connection[1]]}
    /\ UNCHANGED <<flags, wait, replies, refused>>

\* the handler returns Box::pin(async { Err(Error::Connection) }): a future
\* that is not resolved when the handler returns
Refuse ==
    /\ mailbox' = Tail(mailbox)
    /\ refused' = refused \cup {Head(mailbox)}
    /\ UNCHANGED <<flags, wait, inflight, replies>>

\* Mutant of HandleGet: finding no connection, the handler opens one itself.
HandleGet_ConnectsInline ==
    /\ CanHandle("Get")
    /\ IF connection # <<>>
       THEN Issue /\ UNCHANGED <<connection, handles>>
       ELSE Refuse /\ connection' = <<handles + 1>> /\ handles' = handles + 1
    /\ UNCHANGED <<connection_info, connect_result, restarts, msgs, store, now,
                   last, exec, sent, wire>>

\* Handler<Get>::handle: match self.connection { Some(..) => GET, None => Connection }
HandleGet ==
    /\ CanHandle("Get")
    /\ IF connection # <<>> THEN Issue ELSE Refuse
    /\ UNCHANGED <<connection_info, connection, connect_result, handles, restarts,
                   msgs, store, now, last, exec, sent, wire>>

\* Handler<Set>::handle: match self.connection { Some(..) => SET, None => Connection }
HandleSet ==
    /\ CanHandle("Set")
    /\ IF connection # <<>> THEN Issue ELSE Refuse
    /\ UNCHANGED <<connection_info, connection, connect_result, handles, restarts,
                   msgs, store, now, last, exec, sent, wire>>

\* Handler<Delete>::handle: self.connection.clone().unwrap(), then DEL
HandleDelete ==
    /\ CanHandle("Delete")
    /\ IF connection # <<>>
       THEN Issue
       ELSE /\ Crash({mailbox[j] : j \in DOMAIN mailbox})
            /\ inflight' = inflight /\ refused' = refused
    /\ UNCHANGED <<connection_info, connection, connect_result, handles, restarts,
                   msgs, store, now, last, exec, sent, wire>>

\* Handler<Lock>::handle: self.connection.clone().unwrap(), then SET NX EX
HandleLock ==
    /\ CanHandle("Lock")
    /\ IF connection # <<>>
       THEN Issue
       ELSE /\ Crash({mailbox[j] : j \in DOMAIN mailbox})
            /\ inflight' = inflight /\ refused' = refused
    /\ UNCHANGED <<connection_info, connection, connect_result, handles, restarts,
                   msgs, store, now, last, exec, sent, wire>>

\* The command of a response future reaches the backend and takes effect
\* there, while the future is suspended at query_async(&mut con).await; the
\* backend's reply is on its way back.
CommandApplied ==
    \E f \in inflight :
        LET msg == msgs[f.id]
            cmd == Command(msg)
            out == Apply(cmd, store, now)
        IN  /\ f.id \notin DOMAIN wire
            /\ store' = out.store
            /\ wire' = Put(wire, f.id, out.reply)
            /\ last' = IF Changes(cmd, out.reply)
                       THEN Record(last, cmd.key,
                                   [id |-> f.id, at |-> now,
                                    written |-> cmd.name = "SET" \/ Written(last, cmd.key)])
                       ELSE last
            /\ exec' = Record(exec, f.id,
                              [prev |-> IF cmd.key \in DOMAIN last THEN last[cmd.key].id ELSE 0,
                               prevAt |-> IF cmd.key \in DOMAIN last THEN last[cmd.key].at ELSE 0,
                               at |-> now,
                               seq |-> Cardinality(DOMAIN exec) + 1,
                               live |-> cmd.key \in DOMAIN store,
                               unwritten |-> ~Written(last, msg.key),
                               with |-> (Unanswered \ DOMAIN exec) \ {f.id}])
    /\ UNCHANGED <<connection_info, connection, flags, wait, connect_result,
                   handles, restarts, msgs, mailbox, inflight, replies, now, sent,
                   refused>>

\* The reply comes back: query_async(&mut con).await is Ok, and the future
\* resolves to what the handler makes of the reply.
BackendReply ==
    \E f \in inflight :
        /\ f.id \in DOMAIN wire
        /\ replies' = [replies EXCEPT ![f.id] = Result(msgs[f.id], wire[f.id])]
        /\ inflight' = inflight \ {f}
        /\ wire' = Remove(wire, f.id)
    /\ UNCHANGED <<connection_info, connection, flags, wait, connect_result,
                   handles, restarts, msgs, mailbox, store, now, last, exec, sent,
                   refused>>

\* The call fails (the connection is gone), before the command has reached
\* the backend or after it has taken effect there: .map_err(Error::from)
BackendError ==
    \E f \in inflight :
        /\ replies' = [replies EXCEPT ![f.id] = Err("Backend")]
        /\ inflight' = inflight \ {f}
        /\ wire' = Remove(wire, f.id)
    /\ UNCHANGED <<connection_info, connection, flags, wait, connect_result,
                   handles, restarts, msgs, mailbox, store, now, last, exec, sent,
                   refused>>

\* The runtime polls a future async { Err(Error::Connection) }: its sender
\* receives the Connection error, whatever has become of the actor since the
\* handler returned.
RefusedResolves ==
    \E i \in refused :
        /\ replies' = [replies EXCEPT ![i] = Err("Connection")]
        /\ refused' = refused \ {i}
    /\ UNCHANGED <<connection_info, connection, flags, wait, connect_result,
                   handles, restarts, msgs, mailbox, inflight, store, now, last,
                   exec, sent, wire>>

\* a second passes at the backend while some key can expire
Tick ==
    /\ \E k \in DOMAIN store : store[k].exp # <<>>
    /\ now' = now + 1
    /\ store' = Expire(store, now + 1)
    /\ UNCHANGED <<connection_info, connection, flags, wait, connect_result,
                   handles, restarts, msgs, mailbox, inflight, replies, last, exec, sent,
                   refused, wire>>

Next ==
    \/ Started
    \/ ConnectOk
    \/ ConnectErr
    \/ ConnectPanic
    \/ FutResolves
    \/ Restart
    \/ Send
    \/ HandleGet
    \/ HandleSet
    \/ HandleDelete
    \/ HandleLock
    \/ CommandApplied
    \/ BackendReply
    \/ BackendError
    \/ RefusedResolves
    \/ Tick

Spec == Init /\ [][Next]_vars

----------------------------------------------------------------------------
\* The runs of a connected actor that receives up to MaxLockMsgs messages
\* about one lock: Lock on the key "a", and Get, Set and Delete on the keys
\* "a" and "lock::a". The connect succeeds and the backend answers every
\* command.

LockOps ==
    {LockMsg(<<"a">>, MaxTtl)}
    \cup {GetMsg(k) : k \in Keys}
    \cup {SetMsg(k, "x", <<>>) : k \in Keys}
    \cup {DeleteMsg(k) : k \in Keys}

\* addr.send(msg), for the messages about one lock
SendLockOps ==
    /\ Len(msgs) < MaxLockMsgs
    /\ \E m \in LockOps : Post(m)
    /\ UNCHANGED <<connection_info, connection, flags, wait, connect_result,
                   handles, restarts, inflight, store, now, last, exec,
                   refused, wire>>

LockInit == Init /\ connection_info = "valid"

LockNext ==
    \/ Started
    \/ ConnectOk
    \/ FutResolves
    \/ SendLockOps
    \/ HandleGet
    \/ HandleSet
    \/ HandleDelete
    \/ HandleLock
    \/ CommandApplied
    \/ BackendReply
    \/ Tick

LockSpec == LockInit /\ [][LockNext]_vars

----------------------------------------------------------------------------
\* Vocabulary of the properties.

Ids == DOMAIN msgs
Executed == DOMAIN exec
IsOk(i) == replies[i].kind = "Ok"
\* the sender holds the handler's result: a success value or an error value
Answered(i) == replies[i].kind \in {"Ok", "Err"}

\* the handler's result for message i is the Connection error: its future is
\* waiting to be polled, or the sender has received the error
GivenConnectionError(i) == i \in refused \/ replies[i] = Err("Connection")

\* this step takes message i out of the mailbox and runs its handler
Handles(i) ==
    /\ flags = "Running"
    /\ wait = <<>>
    /\ mailbox # <<>>
    /\ Head(mailbox) = i
    /\ (mailbox' = Tail(mailbox) \/ flags' = "Crashed")

----------------------------------------------------------------------------
\* C1. Whatever its type (Get, Set, Delete, Lock), a message handled while
\* the connection handle is unset is answered with the Connection error, and
\* no backend command is issued for it.
C1_UnsetHandleGivesConnectionError ==
    [][\A i \in Ids :
          /\ (Handles(i) /\ connection = <<>>)
                => (GivenConnectionError(i)' /\ inflight' = inflight)
          /\ (i \in refused /\ replies'[i] # replies[i])
                => replies'[i] = Err("Connection")]_vars

\* C2. Every message sent to the actor is answered with its success value or
\* with an error value, in every state of the actor; stated on finite runs:
\* a message that waits for its answer never ends without a result of its
\* handler.
C2_NoMessageEndsWithoutResult ==
    [][\A i \in Ids :
          replies[i] = NoReply => (replies'[i] = NoReply \/ Answered(i)')]_vars

\* C10. The lifecycle is Uninitialized -> Connecting -> Ready on a successful
\* connect and Connecting -> Failed on a failed one; a Failed actor answers
\* every operation with Connection until a restart, and a restart re-enters
\* Connecting.
C10_Lifecycle ==
    [][/\ (ActorState' # ActorState) =>
             \/ (ActorState = "Uninitialized" /\ ActorState' = "Connecting")
             \/ (ActorState = "Connecting" /\ ActorState' \in {"Ready", "Failed"})
             \/ (ActorState \in {"Ready", "Failed"} /\ ActorState' = "Connecting")
        /\ \A i \in Ids :
             (Handles(i) /\ ActorState = "Failed") => GivenConnectionError(i)'
       ]_vars

----------------------------------------------------------------------------
\* Commands that met the backend, in the words of the claims.

\* message j's command met a key whose last change was made by message i
After(i, j) == j \in Executed /\ i \in Ids /\ i # j /\ exec[j].prev = i
\* seconds between that change and j's command
Elapsed(j) == exec[j].at - exec[j].prevAt
\* the ttl of message i, which carries one
TtlOf(i) == msgs[i].ttl[1]

\* Two Lock messages for one key, both answered with a success value: i's
\* command met no marker, j was sent and its command had not yet met the
\* backend at that moment, and nothing but i's command touched the marker
\* before j's command.
LockRace(i, j) ==
    /\ After(i, j)
    /\ msgs[i].op = "Lock" /\ msgs[j].op = "Lock" /\ msgs[i].key = msgs[j].key
    /\ IsOk(i) /\ IsOk(j)
    /\ ~exec[i].live
    /\ j \in exec[i].with

\* C3 as stated. Two concurrent Lock messages for one unlocked key: exactly
\* one sender receives Acquired and the other Locked, in every interleaving.
C3_ExactlyOneAcquired ==
    \A i, j \in Ids :
        LockRace(i, j) => (replies[i].tag = "Acquired" /\ replies[j].tag = "Locked")

\* C3 as amended. Two concurrent Lock messages for one unlocked key: the
\* first to reach the backend receives Acquired; the other receives Locked
\* unless the first marker's ttl has elapsed when it reaches the backend, and
\* Acquired then. Never both Locked.
C3_ExactlyOneAcquiredWithinTtl ==
    \A i, j \in Ids :
        LockRace(i, j) =>
            /\ replies[i].tag = "Acquired"
            /\ replies[j].tag = IF Elapsed(j) < TtlOf(i) THEN "Locked" ELSE "Acquired"

C3_Witness ==
    \E i, j \in Ids : LockRace(i, j) /\ replies[j].tag = "Locked"

\* C4. Lock on a key without marker returns Acquired; a second Lock on the
\* key before the marker's ttl elapses returns Locked; a Lock after the
\* marker's ttl has elapsed returns Acquired again.
C4_LockAcquiredLockedAcquired ==
    \A j \in Ids :
        (j \in Executed /\ msgs[j].op = "Lock" /\ IsOk(j)) =>
            /\ ~exec[j].live => replies[j].tag = "Acquired"
            /\ \A i \in Ids :
                 (/\ After(i, j)
                  /\ msgs[i].op = "Lock" /\ msgs[i].key = msgs[j].key
                  /\ IsOk(i) /\ replies[i].tag = "Acquired")
                    => replies[j].tag =
                         IF Elapsed(j) < TtlOf(i) THEN "Locked" ELSE "Acquired"

C4_Witness ==
    \E i, j \in Ids :
        /\ After(i, j)
        /\ msgs[i].op = "Lock" /\ msgs[j].op = "Lock" /\ msgs[i].key = msgs[j].key
        /\ IsOk(i) /\ replies[i].tag = "Acquired"
        /\ Elapsed(j) >= TtlOf(i)
        /\ IsOk(j) /\ replies[j].tag = "Acquired"

\* C5. Set(key, value, None) that succeeds, then Get(key) with no write or
\* delete of the key in between: the Get returns Some(value).
SetThenGet(i, j) ==
    /\ After(i, j)
    /\ msgs[i].op = "Set" /\ msgs[j].op = "Get" /\ msgs[i].key = msgs[j].key
    /\ IsOk(i) /\ IsOk(j)

C5_SetThenGet ==
    \A i, j \in Ids :
        (SetThenGet(i, j) /\ msgs[i].ttl = <<>>)
            => (replies[j].tag = "Some" /\ replies[j].val = msgs[i].value)

C5_Witness ==
    \E i, j \in Ids :
        /\ SetThenGet(i, j) /\ msgs[i].ttl = <<>>
        /\ replies[j].tag = "Some" /\ replies[j].val = msgs[i].value

\* C6. Delete on a key that exists returns Deleted(n) with n >= 1, and on a
\* key that does not exist Missing; a Get of the key after the Delete
\* returns None.  Set, Delete, Get on one key takes three messages: checked
\* under LockSpec.
C6_Delete ==
    /\ \A j \in Ids :
         (j \in Executed /\ msgs[j].op = "Delete" /\ IsOk(j)) =>
            IF exec[j].live
            THEN replies[j].tag = "Deleted" /\ replies[j].n >= 1
            ELSE replies[j].tag = "Missing"
    /\ \A i, j \in Ids :
         (/\ After(i, j)
          /\ msgs[i].op = "Delete" /\ msgs[j].op = "Get" /\ msgs[i].key = msgs[j].key
          /\ IsOk(i) /\ IsOk(j))
            => replies[j].tag = "None"

\* Set(k, x), Delete(k), Get(k), each meeting what the one before left: the
\* Delete finds the key and returns Deleted(1), the Get returns None.
C6_Witness ==
    \E i, j, k \in Ids :
        /\ After(i, j) /\ After(j, k)
        /\ msgs[i].op = "Set" /\ msgs[j].op = "Delete" /\ msgs[k].op = "Get"
        /\ msgs[i].key = msgs[j].key /\ msgs[j].key = msgs[k].key
        /\ IsOk(i) /\ IsOk(k) /\ exec[j].live
        /\ replies[j] = Ok("Deleted", "", 1)
        /\ replies[k].tag = "None"

\* C7. Set(key, value, Some(ttl)) that succeeds, then Get(key) with no write
\* or delete in between: Some(value) before the expiry has elapsed, None
\* after.
C7_SetWithTtlThenGet ==
    \A i, j \in Ids :
        (SetThenGet(i, j) /\ msgs[i].ttl # <<>>) =>
            IF Elapsed(j) < TtlOf(i)
            THEN replies[j].tag = "Some" /\ replies[j].val = msgs[i].value
            ELSE replies[j].tag = "None"

C7_Witness ==
    \E i, j \in Ids :
        /\ SetThenGet(i, j) /\ msgs[i].ttl # <<>>
        /\ Elapsed(j) >= TtlOf(i)
        /\ replies[j].tag = "None"

\* C8. Two Set messages on different keys in flight together (j was sent and
\* its command had not met the backend when i's command did): whichever
\* command reaches the backend first, each key holds the value its own Set
\* wrote (until its expiry).
SetRace(i, j) ==
    /\ i # j
    /\ Executed = {i, j}
    /\ msgs[i].op = "Set" /\ msgs[j].op = "Set" /\ msgs[i].key # msgs[j].key
    /\ IsOk(i) /\ IsOk(j)
    /\ j \in exec[i].with

Holds(m) ==
    (msgs[m].ttl = <<>> \/ now - exec[m].at < TtlOf(m))
        => (msgs[m].key \in DOMAIN store /\ store[msgs[m].key].val = msgs[m].value)

C8_DistinctKeysDoNotInterfere ==
    \A i, j \in Ids : SetRace(i, j) => (Holds(i) /\ Holds(j))

C8_Witness ==
    \E i, j \in Ids :
        /\ SetRace(i, j) /\ i > j
        /\ store[msgs[i].key].val = msgs[i].value
        /\ store[msgs[j].key].val = msgs[j].value

\* C9. Get of a key that no Set and no Lock marker has ever written returns
\* None.
C9_GetOfUnwrittenKey ==
    \A j \in Ids :
        (j \in Executed /\ msgs[j].op = "Get" /\ IsOk(j) /\ exec[j].unwritten)
            => replies[j].tag = "None"

C9_Witness ==
    \E i, j \in Ids :
        /\ i \in Executed /\ IsOk(i) /\ msgs[i].op \in {"Set", "Lock"}
        /\ j \in Executed /\ msgs[j].op = "Get" /\ IsOk(j) /\ exec[j].unwritten
        /\ exec[i].at <= exec[j].at
        /\ replies[j].tag = "None"

----------------------------------------------------------------------------
\* Connect attempts and handlers, in the words of the claims.

\* this step resolves a connect attempt without a connection
ConnectFails == wait = <<"connect">> /\ wait' # <<"connect">> /\ connect_result' # "ok"

\* this step shows the effect of message i's handler: it returns the future
\* of its command or the future of the Connection error
Ran(i) ==
    \/ \E f \in inflight' \ inflight : f.id = i
    \/ i \in refused' \ refused

\* C11. A connect attempt at startup that fails (an address the client cannot
\* open included) leaves the handle unset and the actor alive, and every
\* message handled afterwards is answered with the Connection error while
\* the actor stays alive.
C11_FailedConnectLeavesActorAlive ==
    [][/\ (ConnectFails /\ restarts = 0) => (connection' = <<>> /\ flags' = "Running")
       /\ \A i \in Ids :
            (Handles(i) /\ restarts = 0 /\ connect_result = "err")
                => (flags' = "Running" /\ GivenConnectionError(i)')
      ]_vars

\* C12. Handling a Get, Set, Delete or Lock message never ends the actor,
\* with the connection set or unset; a backend error reaches the sender as an
\* error value and leaves the actor's state (its handle, its context) as it
\* was.
C12_HandlersNeverEndTheActor ==
    [][/\ \A i \in Ids : Handles(i) => flags' = "Running"
       /\ \A i \in Ids :
            (replies[i] = NoReply /\ replies'[i] = Err("Backend"))
                => (connection' = connection /\ flags' = flags /\ wait' = wait)
      ]_vars

\* C13. No handler runs during a connect attempt: a message sent while the
\* actor is Connecting is handled only when the attempt has resolved; a
\* handler finds the handle unset only after a failed attempt and set only
\* as a whole handle that a successful attempt stored; and the handle is
\* written only by the step that resolves the attempt, in which no handler
\* runs.
C13_NoHandlerDuringConnect ==
    [][/\ \A i \in Ids :
            Ran(i) =>
                /\ ActorState \in {"Ready", "Failed"}
                /\ wait = <<>>
                /\ connection = <<>> => connect_result = "err"
                /\ connection # <<>> =>
                     (Len(connection) = 1 /\ connection[1] \in 1..handles)
       /\ connection' # connection =>
            /\ ActorState = "Connecting"
            /\ \A i \in Ids : ~Ran(i)
            /\ mailbox' = mailbox
      ]_vars

C13_Witness ==
    \E i, j \in Ids :
        /\ sent[i] = "Connecting" /\ replies[i] = Err("Connection")
        /\ sent[j] = "Connecting" /\ \E f \in inflight : f.id = j

\* C14. Once the actor is Ready, handlers do not block one another: while the
\* context waits for nothing, the oldest message of the mailbox can be
\* handled whatever calls are outstanding; the command a handler issues joins
\* the outstanding calls, which stay outstanding; and a call that ends leaves
\* the others outstanding.
C14_HandlersDoNotBlockOneAnother ==
    [][/\ (ActorState = "Ready" /\ wait = <<>> /\ mailbox # <<>>)
            => CanHandle(msgs[Head(mailbox)].op)
       /\ \A i \in Ids :
            (Ran(i) /\ connection # <<>>) =>
                /\ inflight \subseteq inflight'
                /\ Cardinality(inflight') = Cardinality(inflight) + 1
       /\ \A f \in inflight :
            f \notin inflight' => inflight' = inflight \ {f}
      ]_vars

\* two calls are outstanding: the second message was sent to the Ready actor
\* and its command issued while the first call had not ended
C14_Witness ==
    /\ ActorState = "Ready"
    /\ Cardinality(inflight) = 2
    /\ \E f, g \in inflight : f.id < g.id /\ sent[g.id] = "Ready"

\* this step writes the handle field
WritesHandle == connection' # connection

\* C15 as stated. The actor holds at most one handle at a time, and over
\* its whole life, supervised restarts included, the handle field is written
\* only once: at a successful connect, as a whole, and by no handler.
C15_HandleWrittenOnce ==
    [][/\ Len(connection') <= 1
       /\ WritesHandle =>
            /\ connection = <<>>
            /\ wait = <<"connect">> /\ connect_result' = "ok"
            /\ \A i \in Ids : ~Ran(i)
      ]_vars

\* C15 as amended. The actor holds at most one handle at a time; the handle
\* field is written only at a successful connect, once for the start and
\* once for each restart at most, by replacing it with the whole new handle;
\* no handler writes it.
C15_HandleWrittenOnlyAtConnect ==
    [][/\ Len(connection') <= 1
       /\ handles' <= restarts' + 1
       /\ WritesHandle =>
            /\ wait = <<"connect">> /\ connect_result' = "ok"
            /\ handles' = handles + 1 /\ connection' = <<handles'>>
            /\ \A i \in Ids : ~Ran(i)
      ]_vars

C15_Witness ==
    restarts = 1 /\ connect_result = "ok" /\ handles = 2 /\ connection = <<2>>

\* the command each message type stands for
CommandName(op) ==
    CASE op = "Get" -> "GET" [] op = "Set" -> "SET" [] op = "Delete" -> "DEL"
      [] op = "Lock" -> "SET"

\* C16. A handled message causes one backend command at most and no retry:
\* handled with a connection it issues exactly one command (GET, SET, DEL or
\* SET NX EX), whose success or error is the sender's result; handled without
\* a connection it issues none and starts no connect attempt; a command that
\* has met the backend never meets it again.
C16_OneCommandNoRetry ==
    [][/\ \A i \in Ids :
            Handles(i) =>
                IF connection # <<>>
                THEN /\ \A f \in inflight : f.id # i
                     /\ inflight' = inflight \cup {[id |-> i, con |-> connection[1]]}
                     /\ Command(msgs[i]).name = CommandName(msgs[i].op)
                     /\ Command(msgs[i]).nx = (msgs[i].op = "Lock")
                ELSE /\ inflight' = inflight
                     /\ wait' # <<"connect">>
                     /\ handles' = handles /\ connection' = connection
       /\ \A f \in inflight :
            f \notin inflight' =>
                /\ \A g \in inflight' : g.id # f.id
                /\ \A j \in DOMAIN mailbox' : mailbox'[j] # f.id
                /\ \/ replies'[f.id] = Err("Backend")
                   \/ /\ f.id \in Executed
                      /\ f.id \in DOMAIN wire
                      /\ replies'[f.id] = Result(msgs[f.id], wire[f.id])
                /\ store' = store
       /\ \A i \in Executed' \ Executed :
            /\ \E f \in inflight : f.id = i
            /\ store' = Apply(Command(msgs[i]), store, now).store
            /\ wire'[i] = Apply(Command(msgs[i]), store, now).reply
       /\ \A i \in Executed : i \in Executed' /\ exec'[i] = exec[i]
       /\ store' # store => (Executed' # Executed \/ now' # now)
      ]_vars

C16_Witness ==
    \E i, j \in Ids :
        /\ replies[i] = Err("Connection")
        /\ j \in Executed /\ IsOk(j)
        /\ inflight = {}

\* the message whose command last wrote or removed backend key k
Writer(k) == msgs[last[k].id]

\* C17. Value and expiry are written by one command: a key whose last write
\* is that of a Set with a ttl never exists in the backend without its
\* expiry, which is the time of the write plus the ttl; nor does a key whose
\* last write is the marker of a Lock.
C17_ValueAndExpiryTogether ==
    \A k \in DOMAIN store :
        /\ k \in DOMAIN last
        /\ ((Writer(k).op = "Set" /\ Writer(k).ttl # <<>>) \/ Writer(k).op = "Lock") =>
              /\ store[k].val = Writer(k).value
              /\ store[k].exp = <<last[k].at + Writer(k).ttl[1]>>

C17_Witness ==
    \E k, m \in DOMAIN store :
        /\ Writer(k).op = "Set" /\ Writer(k).ttl # <<>>
        /\ store[k].val = Writer(k).value /\ store[k].exp # <<>>
        /\ Writer(m).op = "Lock" /\ m = LockKey(Writer(m).key)
        /\ store[m].exp # <<>>

\* both commands met the backend, i's before j's
Before(i, j) ==
    /\ i \in Executed /\ j \in Executed /\ i # j
    /\ exec[i].seq < exec[j].seq

\* C18. Locks clear only by their expiry: once Lock(key, ttl) has returned
\* Acquired, every Lock on the key that meets the backend before the ttl has
\* elapsed returns Locked, whatever Get, Set, Delete or Lock messages on any
\* keys are handled in between.
C18_LockClearsOnlyByExpiry ==
    \A i, j \in Ids :
        (/\ Before(i, j)
         /\ msgs[i].op = "Lock" /\ msgs[j].op = "Lock" /\ msgs[i].key = msgs[j].key
         /\ IsOk(i) /\ replies[i].tag = "Acquired" /\ IsOk(j)
         /\ exec[j].at - exec[i].at < TtlOf(i))
            => replies[j].tag = "Locked"

\* what the backend holds under key k: <<>> when it holds nothing
Entry(s, k) == IF k \in DOMAIN s THEN <<s[k]>> ELSE <<>>
\* the result a Get of key k would have on backend s
Peek(s, k) == GetResult(Apply(GetCommand(GetMsg(k)), s, 0).reply)

\* C19. The command of Lock(key, ttl) writes the backend key "lock::" + key
\* and no other: the entry of the plain key is as before and a Get of the
\* key has the same result before and after; the commands of Set(key) and
\* Delete(key) leave the entry of "lock::" + key, the lock status of that
\* key, as it was.
C19_MarkersApartFromData ==
    [][\A i \in Ids :
          (i \in Executed' \ Executed) =>
              /\ msgs[i].op = "Lock" =>
                   /\ \A k \in (DOMAIN store \cup DOMAIN store') \ {<<"lock::">> \o msgs[i].key} :
                        Entry(store', k) = Entry(store, k)
                   /\ Entry(store', msgs[i].key) = Entry(store, msgs[i].key)
                   /\ Peek(store', msgs[i].key) = Peek(store, msgs[i].key)
              /\ msgs[i].op \in {"Set", "Delete"} =>
                   Entry(store', <<"lock::">> \o msgs[i].key)
                       = Entry(store, <<"lock::">> \o msgs[i].key)
      ]_vars

C19_Witness ==
    \E i, j, d \in Ids :
        /\ msgs[i].op = "Set" /\ msgs[j].op = "Lock" /\ msgs[d].op = "Delete"
        /\ msgs[i].key = msgs[j].key /\ msgs[d].key = msgs[j].key
        /\ IsOk(i) /\ IsOk(j) /\ IsOk(d)
        /\ Before(i, j) /\ Before(j, d)
        /\ replies[j].tag = "Acquired" /\ replies[d].tag = "Deleted"
        /\ (<<"lock::">> \o msgs[j].key) \in DOMAIN store

\* C20. A supervised restart leaves the handle as it is: after a restart
\* whose connect attempt fails the actor still holds the handle of the
\* connect before the restart, a handler then issues its command on that
\* handle instead of answering with the Connection error, and only a later
\* successful connect overwrites the handle.
C20_RestartKeepsHandle ==
    [][/\ restarts' # restarts => connection' = connection
       /\ ConnectFails => connection' = connection
       /\ \A i \in Ids :
            (Handles(i) /\ restarts > 0 /\ connect_result = "err" /\ connection # <<>>)
                => /\ replies'[i] = NoReply
                   /\ [id |-> i, con |-> connection[1]] \in inflight'
       /\ (connection # <<>> /\ WritesHandle)
            => (wait = <<"connect">> /\ connect_result' = "ok" /\ connection' # <<>>)
      ]_vars

\* a message sent after the failed connect of a restart has its command
\* issued on the handle of the first connect
C20_Witness ==
    /\ restarts = 1 /\ connect_result = "err" /\ connection = <<1>>
    /\ \E f \in inflight : sent[f.id] = "Failed" /\ f.con = 1

=============================================================================
